---- MODULE Spec2Model ----
(***************************************************************************)
(* Resume-Analyzer: the model selector, the four analysis operations, the  *)
(* JSON result coercer (src/utils/analyzer.py), the resume parser and fact *)
(* extractor (src/utils/resume_parser.py) and the Streamlit handlers that  *)
(* call them (src/app.py).                                                 *)
(*                                                                         *)
(* Text is modelled at two grains.  Labels and resume text are sequences   *)
(* of one-character strings, so substring tests and the regular            *)
(* expressions work on characters.  A completion is a sequence of JSON     *)
(* lexer tokens (punctuation, string / number / array literals, and prose  *)
(* words); string literals and prose words are taken to contain no brace.  *)
(***************************************************************************)
EXTENDS Integers, Sequences, FiniteSets, TLC

\* ---------------------------------------------------------------- bounds
MaxLen == 5          \* tokens in an enumerated completion text
MaxLabel == 2        \* chunks in an enumerated model-choice label
MaxChunks == 3
MaxRequests == 2       \* chunks in an enumerated resume text

\* ------------------------------------------------------ sequence helpers
RECURSIVE Concat(_)
Concat(ss) == IF ss = <<>> THEN <<>> ELSE Head(ss) \o Concat(Tail(ss))

\* all sequences of at most n elements of S
SeqsUpTo(S, n) == UNION {[1..k -> S] : k \in 0..n}

\* needle occurs in hay starting at (1-based) position i
OccursAt(hay, needle, i) ==
    /\ i >= 1
    /\ i + Len(needle) - 1 <= Len(hay)
    /\ \A j \in 1..Len(needle) : hay[i + j - 1] = needle[j]

\* Python: needle in hay
Contains(hay, needle) == \E i \in 1..(Len(hay) + 1) : OccursAt(hay, needle, i)

\* Python: text.find(x) on a sequence, 0-based, -1 when absent
find(text, x) ==
    IF \E i \in 1..Len(text) : text[i] = x
    THEN (CHOOSE i \in 1..Len(text) :
              text[i] = x /\ \A j \in 1..(i - 1) : text[j] # x) - 1
    ELSE -1

\* Python: text.rfind(x) on a sequence, 0-based, -1 when absent
rfind(text, x) ==
    IF \E i \in 1..Len(text) : text[i] = x
    THEN (CHOOSE i \in 1..Len(text) :
              text[i] = x /\ \A j \in (i + 1)..Len(text) : text[j] # x) - 1
    ELSE -1

\* Python: text[start:end] for 0 <= start < end
Slice(text, start, end) == SubSeq(text, start + 1, end)

\* ------------------------------------------------------------ JSON values
JNull == [t |-> "null", n |-> 0, s |-> "", l |-> <<>>, m |-> {}]
JNum(x) == [t |-> "num", n |-> x, s |-> "", l |-> <<>>, m |-> {}]
JStr(x) == [t |-> "str", n |-> 0, s |-> x, l |-> <<>>, m |-> {}]
JList(x) == [t |-> "list", n |-> 0, s |-> "", l |-> x, m |-> {}]
\* an object is a set of <<key, value>> pairs with distinct keys
JObj(x) == [t |-> "obj", n |-> 0, s |-> "", l |-> <<>>, m |-> x]

HasKey(v, k) == v.t = "obj" /\ \E p \in v.m : p[1] = k
Get(v, k) == (CHOOSE p \in v.m : p[1] = k)[2]

\* ------------------------------------------------------------ JSON tokens
Tok(k, s, n, l) == [k |-> k, s |-> s, n |-> n, l |-> l]
LB == Tok("punct", "{", 0, <<>>)
RB == Tok("punct", "}", 0, <<>>)
Colon == Tok("punct", ":", 0, <<>>)
Comma == Tok("punct", ",", 0, <<>>)
S(x) == Tok("str", x, 0, <<>>)          \* a string literal "x"
N(x) == Tok("num", "", x, <<>>)         \* a number literal
L(x) == Tok("list", "", 0, x)           \* an array literal of strings
W(x) == Tok("prose", x, 0, <<>>)        \* a word that is not JSON

\* ------------------------------------------------------------- json.loads
ParseFail == [ok |-> FALSE, v |-> JNull, i |-> 0]

RECURSIVE ParseValue(_, _), ParseMembers(_, _, _)
\* parse one JSON value starting at token i; i of the result is the next token
ParseValue(toks, i) ==
    IF i > Len(toks) THEN ParseFail
    ELSE LET tk == toks[i] IN
         CASE tk.k = "str" -> [ok |-> TRUE, v |-> JStr(tk.s), i |-> i + 1]
           [] tk.k = "num" -> [ok |-> TRUE, v |-> JNum(tk.n), i |-> i + 1]
           [] tk.k = "list" -> [ok |-> TRUE, v |-> JList(tk.l), i |-> i + 1]
           [] tk = LB ->
                IF i + 1 <= Len(toks) /\ toks[i + 1] = RB
                THEN [ok |-> TRUE, v |-> JObj({}), i |-> i + 2]
                ELSE ParseMembers(toks, i + 1, {})
           [] OTHER -> ParseFail

\* parse  "key" : value  ( , "key" : value )*  }   with the first key at i;
\* a repeated key keeps its last value, as a Python dict does
ParseMembers(toks, i, acc) ==
    IF i + 1 > Len(toks) \/ toks[i].k # "str" \/ toks[i + 1] # Colon
    THEN ParseFail
    ELSE LET r == ParseValue(toks, i + 2) IN
         IF ~r.ok \/ r.i > Len(toks) THEN ParseFail
         ELSE LET acc2 == {p \in acc : p[1] # toks[i].s}
                              \cup {<<toks[i].s, r.v>>} IN
              IF toks[r.i] = RB
              THEN [ok |-> TRUE, v |-> JObj(acc2), i |-> r.i + 1]
              ELSE IF toks[r.i] = Comma
                   THEN ParseMembers(toks, r.i + 1, acc2)
                   ELSE ParseFail

\* json.loads(text): the whole text must be one value; ok = FALSE is a raise
json_loads(toks) ==
    LET r == ParseValue(toks, 1) IN
    IF r.ok /\ r.i = Len(toks) + 1
    THEN [ok |-> TRUE, v |-> r.v]
    ELSE [ok |-> FALSE, v |-> JNull]

\* ------------------------------------------- ResumeAnalyzer._safe_json_parse
\* variant: the fallback returns an empty dict instead of the default
safe_json_parse_run_empty(text, default) ==
    LET start == find(text, LB)
        end == rfind(text, RB) + 1
    IN  IF start >= 0 /\ end > start
        THEN LET r == json_loads(Slice(text, start, end)) IN
             IF r.ok THEN [via |-> "parsed", v |-> r.v]
                     ELSE [via |-> "default", v |-> JObj({})]
        ELSE [via |-> "default", v |-> JObj({})]

\* variant: no except clause around json.loads
safe_json_parse_run_uncaught(text, default) ==
    LET start == find(text, LB)
        end == rfind(text, RB) + 1
    IN  IF start >= 0 /\ end > start
        THEN LET r == json_loads(Slice(text, start, end)) IN
             IF r.ok THEN [via |-> "parsed", v |-> r.v]
                     ELSE [via |-> "raised", v |-> JNull]
        ELSE [via |-> "default", v |-> default]

\* variant: the slice ends before the last "}" (rfind without + 1)
safe_json_parse_run_short(text, default) ==
    LET start == find(text, LB)
        end == rfind(text, RB)
    IN  IF start >= 0 /\ end > start
        THEN LET r == json_loads(Slice(text, start, end)) IN
             IF r.ok THEN [via |-> "parsed", v |-> r.v]
                     ELSE [via |-> "default", v |-> default]
        ELSE [via |-> "default", v |-> default]

\* the outcome of the coercer: which branch returned, and the value
safe_json_parse_run(text, default) ==
    LET start == find(text, LB)
        end == rfind(text, RB) + 1
    IN  IF start >= 0 /\ end > start
        THEN LET r == json_loads(Slice(text, start, end)) IN
             IF r.ok THEN [via |-> "parsed", v |-> r.v]
                     ELSE [via |-> "default", v |-> default]
        ELSE [via |-> "default", v |-> default]

safe_json_parse(text, default) == safe_json_parse_run(text, default).v

\* ------------------------------------------------------- model selector
FAST_MODEL == "llama-3.1-8b-instant"
POWERFUL_MODEL == "llama-3.1-70b-versatile"

Mark8B == <<"8", "B">>
MarkFast == <<"F", "a", "s", "t">>
Mark70B == <<"7", "0", "B">>
MarkPowerful == <<"P", "o", "w", "e", "r", "f", "u", "l">>

\* the two labels of the sidebar radio
LabelFast == <<"G", "r", "o", "q", " ", "(", "L", "l", "a", "m", "a", "-",
               "3", ".", "1", "-", "8", "B", " ", "-", " ",
               "F", "a", "s", "t", ")">>
LabelPowerful == <<"G", "r", "o", "q", " ", "(", "L", "l", "a", "m", "a", "-",
                   "3", ".", "1", "-", "7", "0", "B", " ", "-", " ",
                   "P", "o", "w", "e", "r", "f", "u", "l", ")">>
AppLabels == {LabelFast, LabelPowerful}

\* a model handle: the identifier and the credential it was built with
ChatGroq(model_name, api_key) == [model_name |-> model_name, api_key |-> api_key]

\* variant: the two tests in the other order
get_llm_powerful_first(choice, groq_api_key) ==
    IF Contains(choice, Mark70B) \/ Contains(choice, MarkPowerful)
    THEN ChatGroq(POWERFUL_MODEL, groq_api_key)
    ELSE ChatGroq(FAST_MODEL, groq_api_key)

\* ResumeAnalyzer._get_llm
get_llm(choice, groq_api_key) ==
    IF Contains(choice, Mark8B) \/ Contains(choice, MarkFast)
    THEN ChatGroq(FAST_MODEL, groq_api_key)
    ELSE IF Contains(choice, Mark70B) \/ Contains(choice, MarkPowerful)
         THEN ChatGroq(POWERFUL_MODEL, groq_api_key)
         ELSE ChatGroq(FAST_MODEL, groq_api_key)

\* one call of the external backend, as the operation's call log records
\* it; ok is whether the backend answered (FALSE: the call raised)
BackendCall(kind, llm, prompt, ok) ==
    [kind |-> kind, model |-> llm.model_name, prompt |-> prompt, ok |-> ok]

\* variant: the handler of the failed probe returns the handle it probed
get_safe_llm_keep(choice, groq_api_key, probe_ok) ==
    LET llm == get_llm(choice, groq_api_key)
        probe == BackendCall("probe", llm,
                            [template |-> "Say 'test'", fields |-> <<>>], probe_ok)
    IN  [llm |-> llm, calls |-> <<probe>>,
         printed |-> IF probe_ok THEN <<>>
                     ELSE <<"Model unavailable, falling back to llama-3.1-8b-instant">>]

\* variant: the handler of the failed probe probes the fallback model too
get_safe_llm_retry(choice, groq_api_key, probe_ok) ==
    LET llm == get_llm(choice, groq_api_key)
        probe == BackendCall("probe", llm,
                            [template |-> "Say 'test'", fields |-> <<>>], probe_ok)
        fallback == ChatGroq(FAST_MODEL, groq_api_key)
    IN  IF probe_ok
        THEN [llm |-> llm, calls |-> <<probe>>, printed |-> <<>>]
        ELSE [llm |-> fallback,
              calls |-> <<probe, BackendCall("probe", fallback,
                                             [template |-> "Say 'test'", fields |-> <<>>],
                                             TRUE)>>,
              printed |-> <<"Model unavailable, falling back to llama-3.1-8b-instant">>]

\* ResumeAnalyzer._get_safe_llm; probe_ok is whether llm.invoke("Say 'test'")
\* returned.  The result carries the handle, the backend calls made and the
\* lines printed.
get_safe_llm(choice, groq_api_key, probe_ok) ==
    LET llm == get_llm(choice, groq_api_key)
        probe == BackendCall("probe", llm,
                            [template |-> "Say 'test'", fields |-> <<>>], probe_ok)
    IN  IF probe_ok
        THEN [llm |-> llm, calls |-> <<probe>>, printed |-> <<>>]
        ELSE [llm |-> ChatGroq(FAST_MODEL, groq_api_key),
              calls |-> <<probe>>,
              printed |-> <<"Model unavailable, falling back to llama-3.1-8b-instant">>]

\* ------------------------------------------------ the analysis operations
Ops == {"analyze_resume", "job_match_analysis", "skill_gap_analysis",
        "generate_interview_questions"}

\* the default structure each operation hands to the coercer
DefaultOf(op) ==
    CASE op = "analyze_resume" ->
           JObj({<<"overall_score", JNum(75)>>,
                 <<"skills_score", JNum(80)>>,
                 <<"experience_level", JStr("Mid-Level")>>,
                 <<"skills_breakdown",
                   JObj({<<"technical_skills", JNum(75)>>,
                         <<"soft_skills", JNum(70)>>,
                         <<"industry_knowledge", JNum(65)>>})>>,
                 <<"recommendations",
                   JList(<<"Focus on adding more specific achievements",
                           "Include metrics and numbers to quantify impact",
                           "Highlight leadership and collaboration experiences">>)>>})
      [] op = "job_match_analysis" ->
           JObj({<<"match_score", JNum(70)>>,
                 <<"category_scores",
                   JObj({<<"skills", JNum(75)>>,
                         <<"experience", JNum(65)>>,
                         <<"education", JNum(70)>>,
                         <<"culture_fit", JNum(60)>>})>>,
                 <<"strengths",
                   JList(<<"Good foundational skills",
                           "Relevant educational background">>)>>,
                 <<"improvements",
                   JList(<<"Gain more industry experience",
                           "Develop missing technical skills">>)>>})
      [] op = "skill_gap_analysis" ->
           JObj({<<"required_skills",
                   JList(<<"Python", "SQL", "Machine Learning",
                           "Data Visualization">>)>>,
                 <<"current_skills", JList(<<"Python", "SQL">>)>>,
                 <<"missing_skills",
                   JList(<<"Machine Learning", "Data Visualization">>)>>,
                 <<"learning_path",
                   JList(<<"Take online course in Machine Learning fundamentals",
                           "Learn data visualization with Tableau or Power BI",
                           "Build portfolio projects using these skills">>)>>})
      [] op = "generate_interview_questions" ->
           JObj({<<"technical_questions",
                   JList(<<"Explain your experience with the technologies mentioned in your resume",
                           "Describe a challenging technical problem you solved recently",
                           "How do you stay updated with the latest technologies in your field?",
                           "What development methodologies have you worked with?",
                           "Can you explain your experience with version control systems?">>)>>,
                 <<"behavioral_questions",
                   JList(<<"Tell me about a time you worked in a team under pressure",
                           "Describe a situation where you had to learn something new quickly",
                           "How do you handle conflicting priorities?",
                           "Tell me about a time you made a mistake and how you handled it",
                           "Describe your approach to mentoring junior team members">>)>>,
                 <<"company_questions",
                   JList(<<"Why are you interested in this type of role at our company?",
                           "What do you know about our industry and recent trends?",
                           "How do you see yourself contributing to our company's goals?">>)>>})

\* the result shape each prompt template asks for, as key paths
ShapeOf(op) ==
    CASE op = "analyze_resume" ->
           {<<"overall_score">>, <<"skills_score">>, <<"experience_level">>,
            <<"skills_breakdown">>, <<"skills_breakdown", "technical_skills">>,
            <<"skills_breakdown", "soft_skills">>,
            <<"skills_breakdown", "industry_knowledge">>, <<"recommendations">>}
      [] op = "job_match_analysis" ->
           {<<"match_score">>, <<"category_scores">>,
            <<"category_scores", "skills">>, <<"category_scores", "experience">>,
            <<"category_scores", "education">>,
            <<"category_scores", "culture_fit">>,
            <<"strengths">>, <<"improvements">>}
      [] op = "skill_gap_analysis" ->
           {<<"required_skills">>, <<"current_skills">>, <<"missing_skills">>,
            <<"learning_path">>}
      [] op = "generate_interview_questions" ->
           {<<"technical_questions">>, <<"behavioral_questions">>,
            <<"company_questions">>}

RECURSIVE HasPath(_, _)
HasPath(v, path) ==
    IF path = <<>> THEN TRUE
    ELSE HasKey(v, Head(path)) /\ HasPath(Get(v, Head(path)), Tail(path))

SchemaComplete(op, v) == \A path \in ShapeOf(op) : HasPath(v, path)

\* variant: a failed chain.invoke is caught and answered with the default
RunOperation_swallow(op, fields, llm_choice, groq_api_key, probe_ok, main) ==
    LET sel == get_safe_llm(llm_choice, groq_api_key, probe_ok)
        calls == Append(sel.calls,
                        BackendCall("main", sel.llm,
                                    [template |-> op, fields |-> fields], main.ok))
    IN  [raised |-> FALSE, llm |-> sel.llm, calls |-> calls,
         printed |-> sel.printed, raw |-> main.text,
         result |-> IF main.ok THEN safe_json_parse_run(main.text, DefaultOf(op))
                    ELSE [via |-> "default", v |-> DefaultOf(op)]]

\* variant: the chain is built on the handle of the label, not on the handle
\* _get_safe_llm returned
RunOperation_unverified(op, fields, llm_choice, groq_api_key, probe_ok, main) ==
    LET sel == get_safe_llm(llm_choice, groq_api_key, probe_ok)
        calls == Append(sel.calls,
                        BackendCall("main", get_llm(llm_choice, groq_api_key),
                                    [template |-> op, fields |-> fields], main.ok))
        coerced == safe_json_parse_run(main.text, DefaultOf(op))
    IN  IF main.ok
        THEN [raised |-> coerced.via = "raised", llm |-> sel.llm, calls |-> calls,
              printed |-> sel.printed, raw |-> main.text,
              result |-> IF coerced.via = "raised"
                         THEN [via |-> "none", v |-> JNull] ELSE coerced]
        ELSE [raised |-> TRUE, llm |-> sel.llm, calls |-> calls,
              printed |-> sel.printed, raw |-> <<>>,
              result |-> [via |-> "none", v |-> JNull]]

\* the body the four operations share: resolve the model (one probe), call
\* the backend once with the rendered prompt and coerce the completion.
\* main is the backend's answer to chain.invoke: [ok |-> FALSE] when it
\* raises, else [ok |-> TRUE, text |-> the completion].  Nothing here
\* catches: raised is TRUE when chain.invoke or the coercer raises.
RunOperation(op, fields, llm_choice, groq_api_key, probe_ok, main) ==
    LET sel == get_safe_llm(llm_choice, groq_api_key, probe_ok)
        calls == Append(sel.calls,
                        BackendCall("main", sel.llm,
                                    [template |-> op, fields |-> fields], main.ok))
        coerced == safe_json_parse_run(main.text, DefaultOf(op))
    IN  IF main.ok
        THEN [raised |-> coerced.via = "raised", llm |-> sel.llm, calls |-> calls,
              printed |-> sel.printed, raw |-> main.text,
              result |-> IF coerced.via = "raised"
                         THEN [via |-> "none", v |-> JNull] ELSE coerced]
        ELSE [raised |-> TRUE, llm |-> sel.llm, calls |-> calls,
              printed |-> sel.printed, raw |-> <<>>,
              result |-> [via |-> "none", v |-> JNull]]

\* ------------------------------------------- the default dict of each call
\* defaults[op] is the dict object the literal in op's return statement last
\* built (JNull: none yet), the object _safe_json_parse returns on its last
\* line.
NoDefaults == [op \in Ops |-> JNull]

\* variant: the default is built once and the same dict is passed every time
default_dict_kept(op, defaults) ==
    IF defaults[op] # JNull THEN defaults[op] ELSE DefaultOf(op)

\* the second argument of _safe_json_parse: the literal is evaluated at
\* each call and gives a new dict
default_dict(op, defaults) == DefaultOf(op)

\* what the caller receives and what exists afterwards: once chain.invoke
\* has returned the literal is evaluated and the coercer is handed that
\* dict; when it falls back it returns the very dict (shared names it)
ReturnedObject(op, run, defaults) ==
    LET d == default_dict(op, defaults)
        coerces == run.calls[Len(run.calls)].ok /\ ~run.raised
        coerced == safe_json_parse_run(run.raw, d)
    IN  [result |-> IF coerces THEN coerced ELSE run.result,
         defaults |-> IF run.calls[Len(run.calls)].ok
                      THEN [defaults EXCEPT ![op] = d] ELSE defaults,
         shared |-> IF coerces /\ coerced.via = "default" THEN {"default"} ELSE {}]

analyze_resume(resume_data, llm_choice, key, probe_ok, main) ==
    RunOperation("analyze_resume", <<resume_data>>, llm_choice, key, probe_ok, main)

job_match_analysis(resume_text, job_description, llm_choice, key, probe_ok, main) ==
    RunOperation("job_match_analysis", <<resume_text, job_description>>,
                 llm_choice, key, probe_ok, main)

skill_gap_analysis(resume_text, target_role, llm_choice, key, probe_ok, main) ==
    RunOperation("skill_gap_analysis", <<resume_text, target_role>>,
                 llm_choice, key, probe_ok, main)

generate_interview_questions(resume_text, job_description, llm_choice, key, probe_ok, main) ==
    RunOperation("generate_interview_questions", <<resume_text, job_description>>,
                 llm_choice, key, probe_ok, main)

\* ======================================================== resume parser
\* ------------------------------------------------------ character classes
LowerLetters == <<"a", "b", "c", "d", "e", "f", "g", "h", "i", "j", "k", "l", "m", "n", "o", "p", "q", "r", "s", "t", "u", "v", "w", "x", "y", "z">>
UpperLetters == <<"A", "B", "C", "D", "E", "F", "G", "H", "I", "J", "K", "L", "M", "N", "O", "P", "Q", "R", "S", "T", "U", "V", "W", "X", "Y", "Z">>
DigitChars == <<"0", "1", "2", "3", "4", "5", "6", "7", "8", "9">>

Range(f) == {f[i] : i \in DOMAIN f}
Letters == Range(LowerLetters) \cup Range(UpperLetters)
Digits == Range(DigitChars)
AlNum == Letters \cup Digits
WordChars == AlNum \cup {"_"}                  \* \w
SpaceChars == {" ", "\t", "\n", "\r", "\f"}     \* \s

\* str.lower()
LowerChar(c) ==
    IF c \in Range(UpperLetters)
    THEN LowerLetters[CHOOSE i \in 1..26 : UpperLetters[i] = c]
    ELSE c
lower(text) == [i \in 1..Len(text) |-> LowerChar(text[i])]

IsWordAt(text, q) == q \in 1..Len(text) /\ text[q] \in WordChars

\* \b holds between positions p - 1 and p
Boundary(text, p) == IsWordAt(text, p - 1) # IsWordAt(text, p)

\* the last position of the longest run of Cls characters starting at i
\* (i - 1 when the run is empty)
RunEnd(text, i, Cls) ==
    CHOOSE r \in (i - 1)..Len(text) :
        /\ \A k \in i..r : text[k] \in Cls
        /\ r = Len(text) \/ text[r + 1] \notin Cls

Max(Sn) == CHOOSE x \in Sn : \A y \in Sn : y <= x
Min(Sn) == CHOOSE x \in Sn : \A y \in Sn : x <= y

\* ------------------------------------------------------------ the regexes
\* \b[A-Za-z0-9._%+-]+@[A-Za-z0-9.-]+\.[A-Z|a-z]{2,}\b
EmailLocal == AlNum \cup {".", "_", "%", "+", "-"}
EmailDomain == AlNum \cup {".", "-"}
EmailTld == Letters \cup {"|"}

\* the ends e of a top-level part that starts at d + 2, after the dot at d + 1
EmailTldEnds(text, d) ==
    {e \in (d + 3)..RunEnd(text, d + 2, EmailTld) : Boundary(text, e + 1)}

\* the last position of the match starting at i, 0 when there is none: the
\* local part runs to the only "@" it can, then the greediest domain split
EmailEnd(text, i) ==
    LET r == RunEnd(text, i, EmailLocal)
        q == RunEnd(text, r + 2, EmailDomain)
        ds == {d \in (r + 2)..(q - 1) :
                  text[d + 1] = "." /\ EmailTldEnds(text, d) # {}}
    IN  IF /\ Boundary(text, i)
           /\ r >= i
           /\ r + 1 <= Len(text)
           /\ text[r + 1] = "@"
           /\ ds # {}
        THEN Max(EmailTldEnds(text, Max(ds)))
        ELSE 0

\* [\+\(]?[1-9][0-9 .\-\(\)]{8,}[0-9]
PhoneBody == Digits \cup {" ", ".", "-", "(", ")"}

\* the match of  [1-9][0-9 .\-\(\)]{8,}[0-9]  starting at k
PhoneCoreEnd(text, k) ==
    LET r == RunEnd(text, k + 1, PhoneBody)
        es == {e \in (k + 9)..r : text[e] \in Digits}
    IN  IF k \in 1..Len(text) /\ text[k] \in (Digits \ {"0"}) /\ es # {}
        THEN Max(es)
        ELSE 0

PhoneEnd(text, i) ==
    IF text[i] \in {"+", "("} /\ PhoneCoreEnd(text, i + 1) > 0
    THEN PhoneCoreEnd(text, i + 1)
    ELSE PhoneCoreEnd(text, i)

\* (\d+)\s*(?:years?|yrs?) : the last position of the digit group starting at i
year == <<"y", "e", "a", "r">>
yr == <<"y", "r">>
YearsGroupEnd(text, i) ==
    LET m == RunEnd(text, i, Digits)
        s == RunEnd(text, m + 1, SpaceChars)
    IN  IF m >= i /\ (OccursAt(text, year, s + 1) \/ OccursAt(text, yr, s + 1))
        THEN m
        ELSE 0

\* re.findall(...)[0], or none: the leftmost match of a pattern whose match
\* from position i ends at ends[i] (0: no match from i)
FirstMatch(text, ends) ==
    LET starts == {i \in 1..Len(text) : ends[i] > 0} IN
    IF starts = {} THEN [found |-> FALSE, match |-> <<>>]
    ELSE [found |-> TRUE,
          match |-> SubSeq(text, Min(starts), ends[Min(starts)])]

EmailEnds(text) == [i \in 1..Len(text) |-> EmailEnd(text, i)]
PhoneEnds(text) == [i \in 1..Len(text) |-> PhoneEnd(text, i)]
YearsGroupEnds(text) == [i \in 1..Len(text) |-> YearsGroupEnd(text, i)]

\* variant: the keyword searched for without the \b on either side
WordSearch_anywhere(text, keyword) ==
    \E i \in 1..Len(text) : OccursAt(text, keyword, i)

\* re.search(r'\b' + re.escape(keyword) + r'\b', text)
WordSearch(text, keyword) ==
    \E i \in 1..Len(text) :
        /\ Boundary(text, i)
        /\ OccursAt(text, keyword, i)
        /\ Boundary(text, i + Len(keyword))

\* len(text.split())
word_count(text) ==
    Cardinality({i \in 1..Len(text) :
                    /\ text[i] \notin SpaceChars
                    /\ i = 1 \/ text[i - 1] \in SpaceChars})

\* ---------------------------------------------------------- vocabularies
skill_keywords ==
    << <<"p", "y", "t", "h", "o", "n">>,
       <<"j", "a", "v", "a">>,
       <<"j", "a", "v", "a", "s", "c", "r", "i", "p", "t">>,
       <<"r", "e", "a", "c", "t">>,
       <<"n", "o", "d", "e", ".", "j", "s">>,
       <<"s", "q", "l">>,
       <<"n", "o", "s", "q", "l">>,
       <<"a", "w", "s">>,
       <<"d", "o", "c", "k", "e", "r">>,
       <<"k", "u", "b", "e", "r", "n", "e", "t", "e", "s">>,
       <<"m", "a", "c", "h", "i", "n", "e", " ", "l", "e", "a", "r", "n", "i", "n", "g">>,
       <<"d", "e", "e", "p", " ", "l", "e", "a", "r", "n", "i", "n", "g">>,
       <<"t", "e", "n", "s", "o", "r", "f", "l", "o", "w">>,
       <<"p", "y", "t", "o", "r", "c", "h">>,
       <<"d", "a", "t", "a", " ", "a", "n", "a", "l", "y", "s", "i", "s">>,
       <<"t", "a", "b", "l", "e", "a", "u">>,
       <<"p", "o", "w", "e", "r", " ", "b", "i">>,
       <<"a", "g", "i", "l", "e">>,
       <<"s", "c", "r", "u", "m">>,
       <<"d", "e", "v", "o", "p", "s">>,
       <<"c", "i", "/", "c", "d">>,
       <<"g", "i", "t">>,
       <<"r", "e", "s", "t", " ", "a", "p", "i">>,
       <<"g", "r", "a", "p", "h", "q", "l">>,
       <<"h", "t", "m", "l">>,
       <<"c", "s", "s">>,
       <<"t", "y", "p", "e", "s", "c", "r", "i", "p", "t">>,
       <<"a", "n", "g", "u", "l", "a", "r">>,
       <<"v", "u", "e">>,
       <<"m", "o", "n", "g", "o", "d", "b">>,
       <<"p", "o", "s", "t", "g", "r", "e", "s", "q", "l">>,
       <<"m", "y", "s", "q", "l">>,
       <<"r", "e", "d", "i", "s">>,
       <<"l", "i", "n", "u", "x">>,
       <<"u", "n", "i", "x">>,
       <<"b", "a", "s", "h">>,
       <<"s", "h", "e", "l", "l">>,
       <<"p", "o", "w", "e", "r", "s", "h", "e", "l", "l">> >>

education_keywords ==
    << <<"b", "a", "c", "h", "e", "l", "o", "r">>,
       <<"m", "a", "s", "t", "e", "r">>,
       <<"p", "h", "d">>,
       <<"d", "e", "g", "r", "e", "e">>,
       <<"u", "n", "i", "v", "e", "r", "s", "i", "t", "y">>,
       <<"c", "o", "l", "l", "e", "g", "e">>,
       <<"b", "\\", ".">>,
       <<"m", "\\", ".">>,
       <<"p", "h", "d">> >>

NOT_FOUND == <<"N", "o", "t", " ", "f", "o", "u", "n", "d">>
NOT_SPECIFIED == <<"N", "o", "t", " ", "s", "p", "e", "c", "i", "f", "i", "e", "d">>

\* ------------------------------------------ ResumeParser._extract_information
\* variant: one sentinel for every absent signal
extract_information_one_sentinel(text) ==
    LET email == FirstMatch(text, EmailEnds(text))
        phone == FirstMatch(text, PhoneEnds(text))
        lowered == lower(text)
        experience_years == FirstMatch(lowered, YearsGroupEnds(lowered))
    IN  [email |-> IF email.found THEN email.match ELSE NOT_FOUND,
         phone |-> IF phone.found THEN phone.match ELSE NOT_FOUND,
         skills |-> SelectSeq(skill_keywords,
                              LAMBDA skill : WordSearch(lowered, skill)),
         education |-> {keyword \in Range(education_keywords) :
                           WordSearch(lowered, keyword)},
         experience_years |-> IF experience_years.found
                              THEN experience_years.match ELSE NOT_FOUND,
         raw_text |-> text,
         word_count |-> word_count(text),
         character_count |-> Len(text)]

extract_information(text) ==
    LET email == FirstMatch(text, EmailEnds(text))
        phone == FirstMatch(text, PhoneEnds(text))
        lowered == lower(text)
        experience_years == FirstMatch(lowered, YearsGroupEnds(lowered))
    IN  [email |-> IF email.found THEN email.match ELSE NOT_FOUND,
         phone |-> IF phone.found THEN phone.match ELSE NOT_FOUND,
         skills |-> SelectSeq(skill_keywords,
                              LAMBDA skill : WordSearch(lowered, skill)),
         education |-> {keyword \in Range(education_keywords) :
                           WordSearch(lowered, keyword)},
         experience_years |-> IF experience_years.found
                              THEN experience_years.match ELSE NOT_SPECIFIED,
         raw_text |-> text,
         word_count |-> word_count(text),
         character_count |-> Len(text)]

\* ------------------------------------------------ ResumeParser.parse_resume
PDF_ERROR == <<"P", "D", "F", " ", "p", "a", "r", "s", "i", "n", "g", " ", "e", "r", "r", "o", "r", ":", " ">>
DOCX_ERROR == <<"D", "O", "C", "X", " ", "p", "a", "r", "s", "i", "n", "g", " ", "e", "r", "r", "o", "r", ":", " ">>
TXT_ERROR == <<"T", "X", "T", " ", "p", "a", "r", "s", "i", "n", "g", " ", "e", "r", "r", "o", "r", ":", " ">>
ExtPdf == <<"p", "d", "f">>
ExtDocx == <<"d", "o", "c", "x">>
ExtTxt == <<"t", "x", "t">>
NEWLINE == <<"\n">>

\* the two kinds of input: a string, or an uploaded file (it has .read).
\* For a file, ok says whether the external reader succeeds; parts are the
\* page texts (pdf), paragraph texts (docx) or the decoded text (txt) it
\* yields, and message is str(e) of the exception it raises otherwise.
PlainText(text) ==
    [is_file |-> FALSE, text |-> text, name |-> <<>>, ok |-> TRUE,
     parts |-> <<>>, message |-> <<>>]
UploadedFile(name, ok, parts, message) ==
    [is_file |-> TRUE, text |-> <<>>, name |-> name, ok |-> ok,
     parts |-> parts, message |-> message]

\* the value of a call: a fact record, or None
ReturnsDict(facts) == [ret |-> "dict", facts |-> facts]
ReturnsNone == [ret |-> "None", facts |-> extract_information(<<>>)]

RECURSIVE JoinWith(_, _)
JoinWith(sep, parts) ==
    IF parts = <<>> THEN <<>>
    ELSE IF Len(parts) = 1 THEN parts[1]
    ELSE parts[1] \o sep \o JoinWith(sep, Tail(parts))

\* file.name.split('.')[-1].lower()
file_extension(name) == lower(SubSeq(name, rfind(name, ".") + 2, Len(name)))

parse_pdf(file) ==
    IF file.ok
    THEN extract_information(
             Concat([i \in 1..Len(file.parts) |-> file.parts[i] \o NEWLINE]))
    ELSE extract_information(PDF_ERROR \o file.message)

parse_docx(file) ==
    IF file.ok
    THEN extract_information(JoinWith(NEWLINE, file.parts))
    ELSE extract_information(DOCX_ERROR \o file.message)

\* variant: the handler passes on the bare message
parse_txt_bare(file) ==
    IF file.ok
    THEN extract_information(Concat(file.parts))
    ELSE extract_information(file.message)

parse_txt(file) ==
    IF file.ok
    THEN extract_information(Concat(file.parts))
    ELSE extract_information(TXT_ERROR \o file.message)

parse_resume(file) ==
    IF file.is_file
    THEN LET ext == file_extension(file.name) IN
         IF ext = ExtPdf THEN ReturnsDict(parse_pdf(file))
         ELSE IF ext = ExtDocx THEN ReturnsDict(parse_docx(file))
         ELSE IF ext = ExtTxt THEN ReturnsDict(parse_txt(file))
         ELSE ReturnsNone
    ELSE ReturnsDict(extract_information(file.text))

\* found_skills of _extract_information: a new list, filled from the list the
\* parser object holds
found_skills(self_skill_keywords, lowered) ==
    SelectSeq(self_skill_keywords, LAMBDA skill : WordSearch(lowered, skill))

\* parse_resume called on a parser object whose skill_keywords is the list
\* given
parse_resume_self(self_skill_keywords, file) ==
    LET r == parse_resume(file) IN
    IF r.ret = "dict"
    THEN ReturnsDict([r.facts EXCEPT
             !.skills = found_skills(self_skill_keywords, lower(r.facts.raw_text))])
    ELSE r

\* ============================================== completions of the backend
Member(k, vtoks) == <<S(k), Colon>> \o vtoks
Obj(members) == <<LB>> \o JoinWith(<<Comma>>, members) \o <<RB>>

\* the members of the example object each prompt template shows
ExampleMembers(op) ==
    CASE op = "analyze_resume" ->
           << Member("overall_score", <<N(85)>>),
              Member("skills_score", <<N(90)>>),
              Member("experience_level", <<S("Mid-Level")>>),
              Member("skills_breakdown",
                     Obj(<< Member("technical_skills", <<N(85)>>),
                            Member("soft_skills", <<N(80)>>),
                            Member("industry_knowledge", <<N(75)>>) >>)),
              Member("recommendations",
                     <<L(<<"Add more quantifiable achievements",
                           "Include specific project outcomes",
                           "Expand on leadership experience">>)>>) >>
      [] op = "job_match_analysis" ->
           << Member("match_score", <<N(85)>>),
              Member("category_scores",
                     Obj(<< Member("skills", <<N(90)>>),
                            Member("experience", <<N(80)>>),
                            Member("education", <<N(85)>>),
                            Member("culture_fit", <<N(75)>>) >>)),
              Member("strengths",
                     <<L(<<"Strong technical skills", "Relevant experience">>)>>),
              Member("improvements",
                     <<L(<<"Gain leadership experience",
                           "Learn specific technology">>)>>) >>
      [] op = "skill_gap_analysis" ->
           << Member("required_skills", <<L(<<"Python", "SQL", "ML">>)>>),
              Member("current_skills", <<L(<<"Python", "SQL">>)>>),
              Member("missing_skills", <<L(<<"ML", "Data Viz">>)>>),
              Member("learning_path", <<L(<<"Take ML course", "Build projects">>)>>) >>
      [] op = "generate_interview_questions" ->
           << Member("technical_questions", <<L(<<"Q1", "Q2", "Q3", "Q4", "Q5">>)>>),
              Member("behavioral_questions", <<L(<<"Q1", "Q2", "Q3", "Q4", "Q5">>)>>),
              Member("company_questions", <<L(<<"Q1", "Q2", "Q3">>)>>) >>

\* the value that example denotes, written out independently of the parser
ExampleValue(op) ==
    CASE op = "analyze_resume" ->
           JObj({<<"overall_score", JNum(85)>>,
                 <<"skills_score", JNum(90)>>,
                 <<"experience_level", JStr("Mid-Level")>>,
                 <<"skills_breakdown",
                   JObj({<<"technical_skills", JNum(85)>>,
                         <<"soft_skills", JNum(80)>>,
                         <<"industry_knowledge", JNum(75)>>})>>,
                 <<"recommendations",
                   JList(<<"Add more quantifiable achievements",
                           "Include specific project outcomes",
                           "Expand on leadership experience">>)>>})
      [] op = "job_match_analysis" ->
           JObj({<<"match_score", JNum(85)>>,
                 <<"category_scores",
                   JObj({<<"skills", JNum(90)>>,
                         <<"experience", JNum(80)>>,
                         <<"education", JNum(85)>>,
                         <<"culture_fit", JNum(75)>>})>>,
                 <<"strengths",
                   JList(<<"Strong technical skills", "Relevant experience">>)>>,
                 <<"improvements",
                   JList(<<"Gain leadership experience",
                           "Learn specific technology">>)>>})
      [] op = "skill_gap_analysis" ->
           JObj({<<"required_skills", JList(<<"Python", "SQL", "ML">>)>>,
                 <<"current_skills", JList(<<"Python", "SQL">>)>>,
                 <<"missing_skills", JList(<<"ML", "Data Viz">>)>>,
                 <<"learning_path", JList(<<"Take ML course", "Build projects">>)>>})
      [] op = "generate_interview_questions" ->
           JObj({<<"technical_questions", JList(<<"Q1", "Q2", "Q3", "Q4", "Q5">>)>>,
                 <<"behavioral_questions", JList(<<"Q1", "Q2", "Q3", "Q4", "Q5">>)>>,
                 <<"company_questions", JList(<<"Q1", "Q2", "Q3">>)>>})

ProseBefore == <<W("Here"), W("is"), W("the"), W("analysis"), Colon>>
ProseAfter == <<W("Hope"), W("this"), W("helps"), Comma, W("bye")>>

\* the example with its first member's value replaced
ExampleWithFirst(op, vtoks) ==
    LET ex == ExampleMembers(op) IN
    Obj(<<Member(ex[1][1].s, vtoks)>> \o Tail(ex))

\* the completions a backend test double answers an operation with
Responses(op) ==
    LET ex == ExampleMembers(op) IN
    { ProseBefore \o ProseAfter,                     \* prose, no JSON
      Obj(ex),                                       \* the object alone
      ProseBefore \o Obj(ex) \o ProseAfter,          \* the object in prose
      ExampleWithFirst(op, <<N(150)>>),              \* an out-of-range value
      ExampleWithFirst(op, <<S("high")>>),           \* a value of another type
      Obj(<<ex[1]>>),                                \* an object of one field
      Obj(Tail(ex)),                                 \* the first field missing
      <<LB, RB>>,                                    \* the empty object
      <<LB>> \o ex[1],                               \* cut off before "}"
      Obj(ex) \o Obj(ex),                            \* two objects
      <<W("as"), LB, W("asked"), RB>> \o Obj(ex),    \* a brace pair in the prose
      <<RB, W("oops"), LB>> }                        \* "}" before "{"

\* every text of at most MaxLen tokens over a six-token alphabet
EnumTokens == {LB, RB, Colon, Comma, S("k"), W("p")}
EnumTexts == SeqsUpTo(EnumTokens, MaxLen)

\* ================================================================= inputs
\* model-choice labels: the two of the sidebar and every label of at most
\* MaxLabel chunks
LabelChunks == {Mark8B, MarkFast, Mark70B, MarkPowerful,
                <<"f", "a", "s", "t">>, <<"8", "b">>, <<" ">>}
Labels == AppLabels \cup {Concat(cs) : cs \in SeqsUpTo(LabelChunks, MaxLabel)}

\* resume texts of at most MaxChunks chunks
ChunkEmail == <<"a", "@", "b", ".", "c", "o">>
ChunkPhone == <<"5", "5", "5", "-", "1", "2", "3", "-", "4", "5", "6", "7">>
ChunkPython == <<"P", "y", "t", "h", "o", "n">>
ChunkMaster == <<"M", "a", "s", "t", "e", "r">>
ChunkSql == <<"s", "q", "l">>
ChunkYrs == <<"y", "r", "s">>
TextChunks == {ChunkEmail, ChunkPhone, ChunkPython, ChunkMaster, ChunkSql,
               ChunkYrs, <<"5">>, <<"@">>, <<" ">>}
Texts == {Concat(cs) : cs \in SeqsUpTo(TextChunks, MaxChunks)}

\* resume texts that name skills next to other words, signs and cases
SkillTexts ==
    {<<"N", "o", "S", "Q", "L", " ", "a", "n", "d", " ", "J", "a", "v", "a">>,
     <<"J", "a", "v", "a", "S", "c", "r", "i", "p", "t">>,
     <<"n", "o", "d", "e", ".", "j", "s">>,
     <<"n", "o", "d", "e", "x", "j", "s">>,
     <<"p", "o", "w", "e", "r", "_", "b", "i">>,
     <<"c", "i", "/", "c", "d", ",", " ", "R", "E", "S", "T", " ", "A", "P", "I">>,
     <<"m", "a", "c", "h", "i", "n", "e", " ", " ", "l", "e", "a", "r", "n", "i", "n", "g">>,
     <<"D", "e", "e", "p", " ", "L", "e", "a", "r", "n", "i", "n", "g">>,
     <<"s", "q", "l", "_", "s", "e", "r", "v", "e", "r">>,
     <<"(", "G", "i", "t", ")">>}

\* uploads: names, what the reader yields, what it raises
NamePdf == <<"c", "v", ".", "p", "d", "f">>
NamePdfUpper == <<"c", "v", ".", "P", "D", "F">>
NameDocx == <<"c", "v", ".", "d", "o", "c", "x">>
NameTxt == <<"m", "y", ".", "c", "v", ".", "t", "x", "t">>
NameRtf == <<"c", "v", ".", "r", "t", "f">>
NameNoDot == <<"c", "v">>
MsgEof == <<"E", "O", "F", " ", "m", "a", "r", "k", "e", "r", " ", "n", "o", "t", " ", "f", "o", "u", "n", "d">>
MsgWithFacts == <<"5", " ", "y", "r", "s", " ", "@", " ", "a", "@", "b", ".", "c", "o">>
FileNames == {NamePdf, NamePdfUpper, NameDocx, NameTxt, NameRtf, NameNoDot}
FileParts == {<<>>, <<ChunkEmail>>, <<ChunkPython, ChunkPhone>>}
FileMessages == {<<>>, MsgEof, MsgWithFacts}
Uploads(names) ==
    {UploadedFile(name, TRUE, parts, <<>>) : name \in names, parts \in FileParts}
    \cup {UploadedFile(name, FALSE, <<>>, msg) : name \in names, msg \in FileMessages}

\* st.file_uploader(type=['pdf', 'docx', 'txt']) hands the page only these
AppFileNames == {NamePdf, NamePdfUpper, NameDocx, NameTxt}
NoFile == PlainText(<<>>)                  \* resume_file is None
AppTexts == {<<>>, ChunkPython \o <<" ">> \o ChunkEmail}

\* GROQ_API_KEY in the environment: unset, empty, or a key
EnvKeys == {"NONE", "", "gsk_live"}

\* what chain.invoke does: raises, or returns a completion
MainOutcomes(texts) ==
    {[ok |-> FALSE, text |-> <<>>]} \cup {[ok |-> TRUE, text |-> t] : t \in texts}

\* ================================================================== state
VARIABLES
    env_key,          \* GROQ_API_KEY
    pc,               \* "startup", "running", "served" or "halted"
    startup_errors,   \* st.error calls of the __main__ block
    analyzer_key,     \* ResumeAnalyzer.groq_api_key, "NONE" before construction
    handler,          \* the page handler of this run, "none" before the first
    operation,        \* the analyzer or parser method called, "none" if none
    llm_choice,       \* the label passed
    llm,              \* the handle the selector returned
    calls,            \* backend calls of this operation, in order
    printed,          \* lines printed to the console
    raw,              \* the completion text
    result,           \* what the operation returned: [via, v]; via = "none" when nothing
    errors,           \* st.error calls of the handler; what a direct call raised
    shown,            \* result fields the page rendered, in order
    resume_in,        \* the input given to parse_resume
    parsed,           \* what parse_resume returned
    parser_skill_keywords,  \* the list ResumeParser.skill_keywords, <<>> before construction
    defaults,         \* the default dict each operation last built
    shared,           \* the names bound to the very object last returned
    requests,         \* parser and analyzer calls since the objects were built
    edited            \* what the caller has modified: <<operation, kind of structure>>

vars == <<env_key, pc, startup_errors, analyzer_key, handler, operation,
          llm_choice, llm, calls, printed, raw, result, errors, shown,
          resume_in, parsed, parser_skill_keywords, defaults, shared, requests, edited>>

NoHandle == ChatGroq("none", "NONE")
NoResult == [via |-> "none", v |-> JNull]
NotParsed == [ret |-> "none", facts |-> extract_information(<<>>)]

\* a fresh script run: nothing called, nothing rendered
FreshRun ==
    /\ handler = "none" /\ operation = "none" /\ llm_choice = <<>>
    /\ llm = NoHandle /\ calls = <<>> /\ printed = <<>> /\ raw = <<>>
    /\ result = NoResult /\ errors = <<>> /\ shown = <<>>
    /\ resume_in = NoFile /\ parsed = NotParsed
    /\ defaults = NoDefaults /\ shared = {} /\ requests = 0 /\ edited = {}

Init ==
    /\ env_key \in EnvKeys
    /\ pc = "startup"
    /\ startup_errors = 0
    /\ analyzer_key = "NONE"
    /\ parser_skill_keywords = <<>>
    /\ FreshRun

\* ---------------------------------------------------------------- app.py
\* variant: the __main__ block without the test of the key
main_block_unguarded ==
    /\ pc \in {"startup", "served"}
    /\ analyzer_key' = env_key
    /\ parser_skill_keywords' = skill_keywords
    /\ pc' = "running"
    /\ handler' = "none" /\ operation' = "none" /\ llm_choice' = <<>>
    /\ llm' = NoHandle /\ calls' = <<>> /\ printed' = <<>> /\ raw' = <<>>
    /\ result' = NoResult /\ errors' = <<>> /\ shown' = <<>>
    /\ resume_in' = NoFile /\ parsed' = NotParsed
    /\ defaults' = NoDefaults /\ shared' = {} /\ requests' = 0 /\ edited' = {}
    /\ UNCHANGED <<env_key, startup_errors>>

\* the __main__ block; Streamlit runs the script once at startup and again
\* after each interaction with a page it has drawn
main_block ==
    /\ pc \in {"startup", "served"}
    /\ IF env_key \in {"NONE", ""}
       THEN /\ startup_errors' = startup_errors + 1
            /\ pc' = "halted"
            /\ UNCHANGED <<analyzer_key, parser_skill_keywords>>
       ELSE /\ analyzer_key' = env_key
            /\ parser_skill_keywords' = skill_keywords
            /\ pc' = "running"
            /\ UNCHANGED startup_errors
    /\ handler' = "none" /\ operation' = "none" /\ llm_choice' = <<>>
    /\ llm' = NoHandle /\ calls' = <<>> /\ printed' = <<>> /\ raw' = <<>>
    /\ result' = NoResult /\ errors' = <<>> /\ shown' = <<>>
    /\ resume_in' = NoFile /\ parsed' = NotParsed
    /\ defaults' = NoDefaults /\ shared' = {} /\ requests' = 0 /\ edited' = {}
    /\ UNCHANGED env_key

\* what each page reads from the result, in order, and what it needs of it
DisplaySteps(h) ==
    CASE h = "resume_analysis" ->
           << <<"overall_score", "any">>, <<"skills_score", "any">>,
              <<"experience_level", "any">>, <<"skills_breakdown", "chart">>,
              <<"recommendations", "iter">> >>
      [] h = "job_matching" ->
           << <<"match_score", "percent">>, <<"category_scores", "chart">>,
              <<"strengths", "iter">>, <<"improvements", "iter">> >>
      [] h = "skill_gap_analysis" ->
           << <<"required_skills", "iter">>, <<"current_skills", "iter">>,
              <<"missing_skills", "iter">>, <<"learning_path", "iter">> >>
      [] h = "interview_prep" ->
           << <<"technical_questions", "iter">>,
              <<"behavioral_questions", "iter">>,
              <<"company_questions", "iter">> >>

\* the value can be used the way the page uses it
Usable(v, need) ==
    CASE need = "any" -> TRUE
      [] need = "percent" -> v.t = "num" /\ v.n >= 0 /\ v.n <= 100
      [] need = "chart" -> v.t = "obj" /\ v.m # {}
      [] need = "iter" -> v.t \in {"list", "str", "obj"}

\* render the fields in order; the first lookup or use that raises ends it
RECURSIVE Display(_, _, _)
Display(steps, v, done) ==
    IF steps = <<>> THEN [shown |-> done, error |-> "none"]
    ELSE LET key == Head(steps)[1]
             need == Head(steps)[2]
         IN  IF ~HasKey(v, key) THEN [shown |-> done, error |-> "KeyError"]
             ELSE IF ~Usable(Get(v, key), need)
                  THEN [shown |-> done, error |-> "DisplayError"]
                  ELSE Display(Tail(steps), v, Append(done, key))

\* the try block of a handler around an operation's outcome
Served(h, op, choice, run) ==
    LET obj == ReturnedObject(op, run, defaults)
        d == Display(DisplaySteps(h), obj.result.v, <<>>)
    IN
    /\ defaults' = obj.defaults
    /\ shared' = obj.shared
    /\ requests' = requests + (IF h = "resume_analysis" THEN 2 ELSE 1)
    /\ handler' = h
    /\ operation' = op
    /\ llm_choice' = choice
    /\ llm' = run.llm
    /\ calls' = run.calls
    /\ printed' = run.printed
    /\ raw' = run.raw
    /\ result' = obj.result
    /\ errors' = IF run.raised
                 THEN <<[boundary |-> h,
                         error |-> IF run.calls[Len(run.calls)].ok
                                   THEN "Exception" ELSE "BackendError"]>>
                 ELSE IF d.error # "none" THEN <<[boundary |-> h, error |-> d.error]>>
                 ELSE <<>>
    /\ shown' = IF run.raised THEN <<>> ELSE d.shown

\* the page is drawn but its condition for running the operation is not met
NotServed(h, choice) ==
    /\ handler' = h
    /\ operation' = "none"
    /\ llm_choice' = choice
    /\ llm' = NoHandle
    /\ calls' = <<>> /\ printed' = <<>> /\ raw' = <<>>
    /\ result' = NoResult /\ errors' = <<>> /\ shown' = <<>>
    /\ resume_in' = NoFile /\ parsed' = NotParsed
    /\ UNCHANGED <<defaults, shared, requests>>

resume_analysis ==
    /\ pc = "running"
    /\ \E resume_input \in AppTexts, resume_file \in {NoFile} \cup Uploads(AppFileNames),
          choice \in AppLabels, probe_ok \in BOOLEAN,
          main \in MainOutcomes(Responses("analyze_resume")) :
          IF resume_input # <<>> \/ resume_file.is_file
          THEN LET file == IF resume_file.is_file THEN resume_file
                           ELSE PlainText(resume_input)
                   resume_data == parse_resume_self(parser_skill_keywords, file)
               IN  /\ resume_in' = file
                   /\ parsed' = resume_data
                   /\ Served("resume_analysis", "analyze_resume", choice,
                             analyze_resume(resume_data, choice, analyzer_key,
                                            probe_ok, main))
          ELSE NotServed("resume_analysis", choice)
    /\ pc' = "served"
    /\ UNCHANGED <<env_key, startup_errors, analyzer_key, parser_skill_keywords, edited>>

job_matching ==
    /\ pc = "running"
    /\ \E resume_text \in AppTexts, job_description \in AppTexts,
          choice \in AppLabels, probe_ok \in BOOLEAN,
          main \in MainOutcomes(Responses("job_match_analysis")) :
          IF resume_text # <<>> /\ job_description # <<>>
          THEN /\ resume_in' = NoFile /\ parsed' = NotParsed
               /\ Served("job_matching", "job_match_analysis", choice,
                         job_match_analysis(resume_text, job_description, choice,
                                            analyzer_key, probe_ok, main))
          ELSE NotServed("job_matching", choice)
    /\ pc' = "served"
    /\ UNCHANGED <<env_key, startup_errors, analyzer_key, parser_skill_keywords, edited>>

skill_gap_analysis_page ==
    /\ pc = "running"
    /\ \E target_role \in AppTexts, resume_text \in AppTexts,
          choice \in AppLabels, probe_ok \in BOOLEAN,
          main \in MainOutcomes(Responses("skill_gap_analysis")) :
          IF target_role # <<>> /\ resume_text # <<>>
          THEN /\ resume_in' = NoFile /\ parsed' = NotParsed
               /\ Served("skill_gap_analysis", "skill_gap_analysis", choice,
                         skill_gap_analysis(resume_text, target_role, choice,
                                            analyzer_key, probe_ok, main))
          ELSE NotServed("skill_gap_analysis", choice)
    /\ pc' = "served"
    /\ UNCHANGED <<env_key, startup_errors, analyzer_key, parser_skill_keywords, edited>>

GENERAL_CANDIDATE == <<"G", "e", "n", "e", "r", "a", "l", " ",
                       "c", "a", "n", "d", "i", "d", "a", "t", "e">>

interview_prep ==
    /\ pc = "running"
    /\ \E job_description \in AppTexts, resume_text \in AppTexts,
          choice \in AppLabels, probe_ok \in BOOLEAN,
          main \in MainOutcomes(Responses("generate_interview_questions")) :
          IF job_description # <<>>
          THEN /\ resume_in' = NoFile /\ parsed' = NotParsed
               /\ Served("interview_prep", "generate_interview_questions", choice,
                         generate_interview_questions(
                             IF resume_text # <<>> THEN resume_text
                             ELSE GENERAL_CANDIDATE,
                             job_description, choice, analyzer_key, probe_ok, main))
          ELSE NotServed("interview_prep", choice)
    /\ pc' = "served"
    /\ UNCHANGED <<env_key, startup_errors, analyzer_key, parser_skill_keywords, edited>>

Next ==
    \/ main_block
    \/ resume_analysis
    \/ job_matching
    \/ skill_gap_analysis_page
    \/ interview_prep

Spec == Init /\ [][Next]_vars

\* =========================================== the classes called directly
\* the state the __main__ block leaves when the key is there (both objects
\* built, nothing called yet), with the argument of the call to come
InitRunning ==
    /\ env_key = "gsk_live"
    /\ pc = "running"
    /\ startup_errors = 0
    /\ analyzer_key = env_key
    /\ handler = "none"
    /\ llm = NoHandle /\ calls = <<>> /\ printed = <<>>
    /\ result = NoResult /\ errors = <<>> /\ shown = <<>>
    /\ parsed = NotParsed
    /\ parser_skill_keywords = skill_keywords
    /\ defaults = NoDefaults /\ shared = {} /\ requests = 0 /\ edited = {}

\* ------------------------------------------------------ the model selector
InitSelect ==
    /\ InitRunning
    /\ operation = "none" /\ raw = <<>> /\ resume_in = NoFile
    /\ llm_choice \in Labels

\* a call of _get_llm
Resolve ==
    /\ pc = "running"
    /\ pc' = "served"
    /\ operation' = "_get_llm"
    /\ llm' = get_llm(llm_choice, analyzer_key)
    /\ UNCHANGED <<env_key, startup_errors, analyzer_key, handler, llm_choice,
                   calls, printed, raw, result, errors, shown, resume_in, parsed,
                   parser_skill_keywords, defaults, shared, requests, edited>>

\* a call of _get_safe_llm, the probe answered or failed by the backend
ResolveVerified ==
    /\ pc = "running"
    /\ pc' = "served"
    /\ operation' = "_get_safe_llm"
    /\ \E probe_ok \in BOOLEAN :
          LET sel == get_safe_llm(llm_choice, analyzer_key, probe_ok) IN
          /\ llm' = sel.llm
          /\ calls' = sel.calls
          /\ printed' = sel.printed
    /\ UNCHANGED <<env_key, startup_errors, analyzer_key, handler, llm_choice,
                   raw, result, errors, shown, resume_in, parsed,
                   parser_skill_keywords, defaults, shared, requests, edited>>

NextSelect == Resolve \/ ResolveVerified

SpecSelect == InitSelect /\ [][NextSelect]_vars

\* -------------------------------------- an operation over every completion
\* the operation to call and the completion its backend will return: every
\* enumerated text and every answer of the test double
InitCoerce ==
    /\ InitRunning
    /\ llm_choice = LabelFast /\ resume_in = NoFile
    /\ operation \in Ops
    /\ raw \in EnumTexts \cup Responses(operation)

\* the call of the operation: the probe is answered, the completion returned
CallOperation ==
    /\ pc = "running"
    /\ pc' = "served"
    /\ LET run == RunOperation(operation, <<>>, llm_choice, analyzer_key, TRUE,
                               [ok |-> TRUE, text |-> raw])
           obj == ReturnedObject(operation, run, defaults)
       IN
          /\ llm' = run.llm
          /\ calls' = run.calls
          /\ printed' = run.printed
          /\ result' = obj.result
          /\ defaults' = obj.defaults
          /\ shared' = obj.shared
          /\ requests' = requests + 1
          /\ errors' = IF run.raised
                       THEN <<[boundary |-> "caller", error |-> "Exception"]>>
                       ELSE <<>>
    /\ UNCHANGED <<env_key, startup_errors, analyzer_key, handler, operation,
                   llm_choice, raw, shown, resume_in, parsed, parser_skill_keywords,
                   edited>>

NextCoerce == CallOperation

SpecCoerce == InitCoerce /\ [][NextCoerce]_vars

\* ------------------------------------------------------------ the parser
ParserInputs ==
    {PlainText(text) : text \in Texts \cup SkillTexts} \cup Uploads(FileNames)

InitParse ==
    /\ InitRunning
    /\ operation = "none" /\ raw = <<>> /\ llm_choice = <<>>
    /\ resume_in \in ParserInputs

\* a call of parse_resume
ParseResume ==
    /\ pc = "running"
    /\ pc' = "served"
    /\ operation' = "parse_resume"
    /\ parsed' = parse_resume_self(parser_skill_keywords, resume_in)
    /\ shared' = {}
    /\ requests' = requests + 1
    /\ UNCHANGED <<env_key, startup_errors, analyzer_key, handler, llm_choice,
                   llm, calls, printed, raw, result, errors, shown, resume_in,
                   parser_skill_keywords, defaults, edited>>

NextParse == ParseResume

SpecParse == InitParse /\ [][NextParse]_vars

\* ------------------------------------ a session of calls on the two objects
\* One parser and one analyzer serve MaxRequests calls in a row; between two
\* calls the caller may modify the structure the last call returned.
SessionTexts == AppTexts \cup {ChunkSql}

\* the backend's completions in a session: prose, or an object
SessionResponses(op) ==
    {ProseBefore \o ProseAfter, Obj(ExampleMembers(op))}

\* a call of parse_resume
ParseCall ==
    /\ pc \in {"running", "served"}
    /\ requests < MaxRequests
    /\ \E text \in SessionTexts :
          /\ resume_in' = PlainText(text)
          /\ parsed' = parse_resume_self(parser_skill_keywords, PlainText(text))
    /\ operation' = "parse_resume"
    /\ shared' = {}
    /\ requests' = requests + 1
    /\ pc' = "served"
    /\ UNCHANGED <<env_key, startup_errors, analyzer_key, handler, llm_choice,
                   llm, calls, printed, raw, result, errors, shown,
                   parser_skill_keywords, defaults, edited>>

\* a call of one of the four analysis operations
AnalysisCall ==
    /\ pc \in {"running", "served"}
    /\ requests < MaxRequests
    /\ \E op \in Ops, probe_ok \in BOOLEAN :
       \E main \in MainOutcomes(SessionResponses(op)) :
          LET run == RunOperation(op, <<>>, llm_choice, analyzer_key, probe_ok, main)
              obj == ReturnedObject(op, run, defaults)
          IN  /\ operation' = op
              /\ llm' = run.llm
              /\ calls' = run.calls
              /\ printed' = run.printed
              /\ raw' = run.raw
              /\ result' = obj.result
              /\ errors' = IF run.raised
                           THEN <<[boundary |-> "caller", error |-> "BackendError"]>>
                           ELSE <<>>
              /\ defaults' = obj.defaults
              /\ shared' = obj.shared
    /\ requests' = requests + 1
    /\ pc' = "served"
    /\ UNCHANGED <<env_key, startup_errors, analyzer_key, handler, llm_choice,
                   shown, resume_in, parsed, parser_skill_keywords, edited>>

\* what a caller may do to a dict it was given: clear it, or set a key
CallerEdits(v) ==
    {JObj({}),
     JObj({p \in v.m : p[1] # "note"} \cup {<<"note", JStr("seen")>>})}

\* the caller modifies the dict the last analysis returned; every name bound
\* to that object sees the change
EditResult ==
    /\ pc = "served"
    /\ operation \in Ops
    /\ result.via # "none"
    /\ \E v \in CallerEdits(result.v) :
          /\ result' = [result EXCEPT !.v = v]
          /\ defaults' = IF "default" \in shared
                         THEN [defaults EXCEPT ![operation] = v] ELSE defaults
    /\ parser_skill_keywords' = parser_skill_keywords
    /\ edited' = edited \cup {<<operation, result.via>>}
    /\ pc' = "running"
    /\ UNCHANGED <<env_key, startup_errors, analyzer_key, handler, operation,
                   llm_choice, llm, calls, printed, raw, errors, shown,
                   resume_in, parsed, shared, requests>>

COBOL == <<"c", "o", "b", "o", "l">>

\* the caller modifies the skills list of the facts the last parse returned
EditFacts ==
    /\ pc = "served"
    /\ operation = "parse_resume"
    /\ parsed.ret = "dict"
    /\ \E skills \in {<<>>, Append(parsed.facts.skills, COBOL)} :
          /\ parsed' = [parsed EXCEPT !.facts.skills = skills]
          /\ parser_skill_keywords' = IF "skill_keywords" \in shared
                                      THEN skills ELSE parser_skill_keywords
    /\ edited' = edited \cup {<<operation, "facts">>}
    /\ pc' = "running"
    /\ UNCHANGED <<env_key, startup_errors, analyzer_key, handler, operation,
                   llm_choice, llm, calls, printed, raw, result, errors, shown,
                   resume_in, defaults, shared, requests>>

InitSession ==
    /\ InitRunning
    /\ operation = "none" /\ raw = <<>> /\ resume_in = NoFile
    /\ llm_choice = LabelPowerful

NextSession == ParseCall \/ AnalysisCall \/ EditResult \/ EditFacts

SpecSession == InitSession /\ [][NextSession]_vars

\* ================================================================ claims
\* an analysis operation has returned a value
Returned == result.via # "none"

\* the keys of an object, at any depth
RECURSIVE KeysOf(_)
KeysOf(v) ==
    IF v.t # "obj" THEN {}
    ELSE {p[1] : p \in v.m} \cup UNION {KeysOf(p[2]) : p \in v.m}

\* the string literals of a completion
StringsIn(text) == {text[i].s : i \in {j \in 1..Len(text) : text[j].k = "str"}}

\* C1 as stated: every result an analysis operation returns has every field of
\* the operation's result shape, whatever the completion was.
C1_AlwaysSchemaComplete ==
    Returned => SchemaComplete(operation, result.v)

\* C1 amended: every result is a JSON object that is either the operation's
\* whole default (on a parsing failure), which has every field of the shape,
\* or the object the completion carried, whose keys are all keys the
\* completion wrote (no default field is mixed in) and which has every field
\* of the shape when the completion is the template's example object.
C1_DefaultOrCompletionObject ==
    Returned =>
        /\ result.v.t = "obj"
        /\ result.via = "default" =>
               /\ result.v = DefaultOf(operation)
               /\ SchemaComplete(operation, result.v)
        /\ result.via = "parsed" =>
               /\ KeysOf(result.v) \subseteq StringsIn(raw)
               /\ raw \in {Obj(ExampleMembers(operation)),
                           ProseBefore \o Obj(ExampleMembers(operation)) \o ProseAfter}
                      => SchemaComplete(operation, result.v)

\* C1 witness: job matching got back the completion's object, which has
\* match_score but not every field of the shape
C1_Witness ==
    /\ handler = "job_matching"
    /\ result.via = "parsed"
    /\ ~SchemaComplete(operation, result.v)
    /\ HasKey(result.v, "match_score")

\* positions of the first "{" and the last "}" of the completion
BracePositions(c) == {i \in 1..Len(raw) : raw[i] = c}
NoBracePair ==
    ~\E i \in BracePositions(LB), j \in BracePositions(RB) : i < j
OuterSlice == SubSeq(raw, Min(BracePositions(LB)), Max(BracePositions(RB)))

\* C2: the coercer never raises and returns the given default unchanged when
\* the completion has no "{" before a "}" or the text from the first "{" to
\* the last "}" is not a JSON object; the operation then returns exactly its
\* literal default and no error reaches the caller.
C2_FallsBackToDefault ==
    pc = "served" =>
        /\ errors = <<>>
        /\ result.via \in {"parsed", "default"}
        /\ (NoBracePair \/ ~json_loads(OuterSlice).ok) =>
               result = [via |-> "default", v |-> DefaultOf(operation)]

\* C2 witness: job_match_analysis answered with prose returned its default
C2_Witness ==
    /\ pc = "served"
    /\ operation = "job_match_analysis"
    /\ raw = ProseBefore \o ProseAfter
    /\ result.via = "default"
    /\ Get(result.v, "match_score") = JNum(70)

\* the completion is  before ++ object ++ after  with the object at i..j
ObjectAt(i, j) ==
    /\ i < j
    /\ raw[i] = LB
    /\ raw[j] = RB
    /\ json_loads(SubSeq(raw, i, j)).ok
\* the objects of the completion that lie in no other of its objects
OutermostObjects ==
    {ij \in (1..Len(raw)) \X (1..Len(raw)) :
        /\ ObjectAt(ij[1], ij[2])
        /\ ~\E kl \in (1..Len(raw)) \X (1..Len(raw)) :
               /\ kl # ij
               /\ kl[1] <= ij[1] /\ ij[2] <= kl[2]
               /\ ObjectAt(kl[1], kl[2])}
ParsedObjectAt(ij) == [via |-> "parsed", v |-> json_loads(SubSeq(raw, ij[1], ij[2])).v]

\* C3 as stated: when the completion contains exactly one well-formed JSON
\* object, whatever surrounds it, the operation returns that object.
C3_OneObjectAnywhere ==
    (pc = "served" /\ Cardinality(OutermostObjects) = 1) =>
        \A ij \in OutermostObjects : result = ParsedObjectAt(ij)

\* the text around the object at i..j has no "{" before it and no "}" after
CleanAround(ij) ==
    /\ \A k \in 1..(ij[1] - 1) : raw[k] # LB
    /\ \A k \in (ij[2] + 1)..Len(raw) : raw[k] # RB

\* C3 amended: when the completion is one well-formed JSON object surrounded
\* by text with no "{" before it and no "}" after it, the operation returns
\* that object and not the default, with its values as written: the
\* template's example object comes back as the value it denotes, and an
\* out-of-range first value comes back unclamped.
C3_ObjectInCleanProse ==
    pc = "served" =>
        /\ \A ij \in OutermostObjects : CleanAround(ij) => result = ParsedObjectAt(ij)
        /\ raw \in {Obj(ExampleMembers(operation)),
                    ProseBefore \o Obj(ExampleMembers(operation)) \o ProseAfter}
               => result = [via |-> "parsed", v |-> ExampleValue(operation)]
        /\ raw = ExampleWithFirst(operation, <<N(150)>>)
               => /\ result.via = "parsed"
                  /\ Get(result.v, ExampleMembers(operation)[1][1].s) = JNum(150)

\* C3 witness: job_match_analysis returned an object found inside prose
C3_Witness ==
    /\ pc = "served"
    /\ operation = "job_match_analysis"
    /\ raw = ProseBefore \o Obj(ExampleMembers(operation)) \o ProseAfter
    /\ result.via = "parsed"
    /\ Get(result.v, "match_score") = JNum(85)

\* ------------------------------------------------------------ selector
UsableHandle(h) ==
    /\ h.model_name \in {FAST_MODEL, POWERFUL_MODEL}
    /\ h.api_key = analyzer_key
    /\ h.api_key \notin {"NONE", ""}

\* C4: _get_safe_llm returns a usable handle for every label and never
\* raises; when the probe fails it returns the lightweight handle, having
\* probed once only and reported no error.
C4_SafeSelectorFallsBack ==
    (pc = "served" /\ operation = "_get_safe_llm") =>
        /\ UsableHandle(llm)
        /\ errors = <<>>
        /\ Len(calls) = 1
        /\ calls[1].kind = "probe"
        /\ ~calls[1].ok => llm = ChatGroq(FAST_MODEL, analyzer_key)

\* C4 witness: the probe of the heavyweight model failed and the lightweight
\* handle came back
C4_Witness ==
    /\ pc = "served"
    /\ operation = "_get_safe_llm"
    /\ llm_choice = LabelPowerful
    /\ calls[1].model = POWERFUL_MODEL
    /\ ~calls[1].ok
    /\ llm.model_name = FAST_MODEL

HasFastMarker(label) == Contains(label, Mark8B) \/ Contains(label, MarkFast)
HasPowerfulMarker(label) == Contains(label, Mark70B) \/ Contains(label, MarkPowerful)

\* C5 as stated: a label with a fast marker resolves to the lightweight
\* model, a label with a powerful marker to the heavyweight model, any other
\* label to the lightweight model.
C5_EveryMarkerDecides ==
    (pc = "served" /\ operation = "_get_llm") =>
        /\ HasFastMarker(llm_choice) => llm.model_name = FAST_MODEL
        /\ HasPowerfulMarker(llm_choice) => llm.model_name = POWERFUL_MODEL
        /\ (~HasFastMarker(llm_choice) /\ ~HasPowerfulMarker(llm_choice))
               => llm.model_name = FAST_MODEL

\* C5 amended: _get_llm is total; a label with a fast marker resolves to the
\* lightweight model, a label with a powerful marker and no fast marker to
\* the heavyweight model, any other label to the lightweight model; the two
\* labels of the application resolve to different models.
C5_FastMarkerWins ==
    (pc = "served" /\ operation = "_get_llm") =>
        /\ llm.model_name \in {FAST_MODEL, POWERFUL_MODEL}
        /\ HasFastMarker(llm_choice) => llm.model_name = FAST_MODEL
        /\ (HasPowerfulMarker(llm_choice) /\ ~HasFastMarker(llm_choice))
               => llm.model_name = POWERFUL_MODEL
        /\ (~HasFastMarker(llm_choice) /\ ~HasPowerfulMarker(llm_choice))
               => llm.model_name = FAST_MODEL
        /\ llm_choice = LabelFast => llm.model_name = FAST_MODEL
        /\ llm_choice = LabelPowerful => llm.model_name = POWERFUL_MODEL

\* C5 witness: a label with both markers resolved to the lightweight model
C5_Witness ==
    /\ pc = "served"
    /\ operation = "_get_llm"
    /\ HasFastMarker(llm_choice)
    /\ HasPowerfulMarker(llm_choice)
    /\ llm.model_name = FAST_MODEL

\* ------------------------------------------------------------ operations
\* C6: an analysis operation calls the backend at most twice: one probe,
\* then at most one main completion call, in that order, and none again
\* after a failure.
C6_AtMostProbeThenMain ==
    /\ Len(calls) <= 2
    /\ Len(calls) >= 1 => calls[1].kind = "probe"
    /\ Len(calls) = 2 => calls[2].kind = "main"

\* C6 witness: the probe failed, then the main call failed, and that was all
C6_Witness ==
    /\ handler = "skill_gap_analysis"
    /\ Len(calls) = 2
    /\ ~calls[1].ok
    /\ ~calls[2].ok

MainFailed == Len(calls) = 2 /\ ~calls[2].ok
MainAnswered == Len(calls) = 2 /\ calls[2].ok

\* C7: when the main completion call fails the handler reports exactly one
\* error and there is no result (nothing coerced, nothing rendered); a failed
\* probe is never what is reported: with the main call answered no backend
\* error is shown, and a complete object is rendered without any error.
C7_MainFailureReportedOnce ==
    /\ MainFailed =>
           /\ errors = <<[boundary |-> handler, error |-> "BackendError"]>>
           /\ result = NoResult
           /\ raw = <<>>
           /\ shown = <<>>
    /\ MainAnswered =>
           /\ \A i \in 1..Len(errors) : errors[i].error \in {"KeyError", "DisplayError"}
           /\ raw = Obj(ExampleMembers(operation)) => errors = <<>>

\* C7 witness: the probe succeeded, the main call failed, one error shown
C7_Witness ==
    /\ handler = "job_matching"
    /\ MainFailed
    /\ calls[1].ok
    /\ Len(errors) = 1
    /\ result = NoResult

\* C8: with the key absent at startup no operation runs, no backend call is
\* made and no handler error is shown; the absence is reported once, by the
\* __main__ block.
C8_NoKeyNoOperation ==
    env_key \in {"NONE", ""} =>
        /\ handler = "none"
        /\ operation = "none"
        /\ calls = <<>>
        /\ errors = <<>>
        /\ analyzer_key = "NONE"
        /\ pc \in {"startup", "halted"}
        /\ startup_errors = IF pc = "halted" THEN 1 ELSE 0

\* C8 witness: the key is unset and the startup error has been shown
C8_Witness ==
    /\ env_key = "NONE"
    /\ pc = "halted"
    /\ startup_errors = 1

\* --------------------------------------------------------------- parser
\* str.upper()
upper(text) ==
    [i \in 1..Len(text) |->
        IF text[i] \in Range(LowerLetters)
        THEN UpperLetters[CHOOSE k \in 1..26 : LowerLetters[k] = text[i]]
        ELSE text[i]]

PARSING_ERROR == <<" ", "p", "a", "r", "s", "i", "n", "g", " ",
                   "e", "r", "r", "o", "r", ":", " ">>

KnownExtension(file) == file_extension(file.name) \in {ExtPdf, ExtDocx, ExtTxt}

\* C9: for an upload with extension pdf, docx or txt whose text extraction
\* fails, parse_resume still returns a fact record, the one extracted from
\* the text "<FORMAT> parsing error: <message>".
C9_ExtractionFailureBecomesText ==
    (pc = "served" /\ resume_in.is_file /\ KnownExtension(resume_in) /\ ~resume_in.ok) =>
        LET placeholder == upper(file_extension(resume_in.name)) \o PARSING_ERROR
                               \o resume_in.message
        IN  /\ parsed.ret = "dict"
            /\ parsed.facts.raw_text = placeholder
            /\ parsed.facts.character_count = Len(placeholder)
            /\ parsed.facts.word_count >= 3
            /\ parsed = ReturnsDict(extract_information(placeholder))

\* C9 witness: a txt upload that cannot be decoded; the facts come from the
\* placeholder, the address in the message included
C9_Witness ==
    /\ pc = "served"
    /\ resume_in.is_file
    /\ resume_in.name = NameTxt
    /\ ~resume_in.ok
    /\ resume_in.message = MsgWithFacts
    /\ parsed.ret = "dict"
    /\ parsed.facts.email = ChunkEmail

\* what the three patterns match, stated position by position
AllIn(text, i, j, Cls) == \A k \in i..j : text[k] \in Cls
PositionsOf(text, c) == {k \in 1..Len(text) : text[k] = c}

\* an address at i..e: local part, "@" at a, domain, "." at d, top level
IsEmail(text, i, e) ==
    \E a \in PositionsOf(text, "@") :
        /\ i < a
        /\ Boundary(text, i)
        /\ AllIn(text, i, a - 1, EmailLocal)
        /\ \E d \in PositionsOf(text, ".") :
              /\ a + 1 < d
              /\ d + 2 <= e
              /\ AllIn(text, a + 1, d - 1, EmailDomain)
              /\ AllIn(text, d + 1, e, EmailTld)
              /\ Boundary(text, e + 1)

\* a phone number at i..e: optional "+" or "(", a digit 1-9 at k, at least
\* eight body characters, a digit at e
IsPhone(text, i, e) ==
    \E k \in {i, i + 1} :
        /\ k = i + 1 => text[i] \in {"+", "("}
        /\ k + 9 <= e
        /\ text[k] \in Digits \ {"0"}
        /\ text[e] \in Digits
        /\ AllIn(text, k + 1, e - 1, PhoneBody)

\* digits at i..m followed, after any white space, by "year" or "yr"
IsYears(text, i, m) ==
    /\ AllIn(text, i, m, Digits)
    /\ \E s \in m..Len(text) :
          /\ AllIn(text, m + 1, s, SpaceChars)
          /\ OccursAt(text, year, s + 1) \/ OccursAt(text, yr, s + 1)

Spans(text) == {ie \in (1..Len(text)) \X (1..Len(text)) : ie[1] <= ie[2]}

\* the field is the sentinel when the pattern matches nowhere, and a match
\* of the pattern otherwise
SentinelOrMatch(field, sentinel, text, matches) ==
    IF matches = {} THEN field = sentinel
    ELSE \E ie \in matches : field = SubSeq(text, ie[1], ie[2])

Emails(text) == {ie \in Spans(text) : IsEmail(text, ie[1], ie[2])}
Phones(text) == {ie \in Spans(text) : IsPhone(text, ie[1], ie[2])}
YearsGroups(text) == {ie \in Spans(text) : IsYears(text, ie[1], ie[2])}

EmptyTextFacts(facts, absent, unspecified) ==
    /\ facts.email = absent
    /\ facts.phone = absent
    /\ facts.experience_years = unspecified
    /\ facts.skills = <<>>
    /\ facts.education = {}
    /\ facts.word_count = 0
    /\ facts.character_count = 0

ExtractionHolds(absent, unspecified) ==
    (pc = "served" /\ parsed.ret = "dict") =>
        LET facts == parsed.facts
            text == facts.raw_text
        IN  /\ SentinelOrMatch(facts.email, absent, text, Emails(text))
            /\ SentinelOrMatch(facts.phone, absent, text, Phones(text))
            /\ SentinelOrMatch(facts.experience_years, unspecified, lower(text),
                               YearsGroups(lower(text)))
            /\ text = <<>> => EmptyTextFacts(facts, absent, unspecified)

LOWER_NOT_FOUND == <<"n", "o", "t", " ", "f", "o", "u", "n", "d">>
LOWER_NOT_SPECIFIED == <<"n", "o", "t", " ", "s", "p", "e", "c", "i", "f", "i", "e", "d">>

\* C10 as stated: extraction succeeds for every text; email and phone are
\* "not found" and experience_years is "not specified" when nothing matches,
\* and the empty text gives all sentinels, no skills, no education and zero
\* counts.
C10_LowerCaseSentinels ==
    ExtractionHolds(LOWER_NOT_FOUND, LOWER_NOT_SPECIFIED)

\* C10 amended: the same with the sentinels the code returns, "Not found"
\* for email and phone and "Not specified" for experience_years.
C10_Sentinels ==
    ExtractionHolds(NOT_FOUND, NOT_SPECIFIED)

\* C10 witness: the empty text was parsed and every signal is its sentinel
C10_Witness ==
    /\ pc = "served"
    /\ ~resume_in.is_file
    /\ resume_in.text = <<>>
    /\ parsed.ret = "dict"
    /\ parsed.facts.email = NOT_FOUND
    /\ parsed.facts.experience_years = NOT_SPECIFIED
    /\ parsed.facts.word_count = 0

\* ------------------------------------------------------------------- C11
\* the term occurs in the text as a whole word, whatever the case of the
\* text: no word character touches the occurrence on either side
OccursAsWholeWord(text, term) ==
    \E i \in 1..Len(text) :
        LET j == i + Len(term) - 1 IN
        /\ j <= Len(text)
        /\ \A k \in 1..Len(term) : LowerChar(text[i + k - 1]) = term[k]
        /\ i = 1 \/ text[i - 1] \notin WordChars
        /\ j = Len(text) \/ text[j + 1] \notin WordChars

\* C11: for every input text the skills of the fact record have no
\* duplicates, are all terms of the fixed skill vocabulary in its lower-case
\* form, and are exactly the vocabulary terms that occur as whole words,
\* case-insensitively, in the text.
C11_SkillsAreWholeWordTerms ==
    (operation = "parse_resume" /\ parsed.ret = "dict") =>
        LET text == parsed.facts.raw_text
            skills == parsed.facts.skills
        IN  /\ \A i, j \in DOMAIN skills : skills[i] = skills[j] => i = j
            /\ Range(skills) \subseteq Range(skill_keywords)
            /\ \A s \in Range(skills) : \A k \in DOMAIN s : s[k] \notin Range(UpperLetters)
            /\ \A term \in Range(skill_keywords) :
                   term \in Range(skills) <=> OccursAsWholeWord(text, term)

\* C11 witness: a text naming "NoSQL" and "Java" in its own casing was
\* parsed; both are reported in lower case, and "sql", which occurs only
\* inside "NoSQL", is not
C11_Witness ==
    /\ pc = "served"
    /\ operation = "parse_resume"
    /\ parsed.ret = "dict"
    /\ parsed.facts.raw_text =
           <<"N", "o", "S", "Q", "L", " ", "a", "n", "d", " ", "J", "a", "v", "a">>
    /\ parsed.facts.skills = << <<"j", "a", "v", "a">>, <<"n", "o", "s", "q", "l">> >>

\* ------------------------------------------------------------------- C12
\* C12: requests share no mutable state: whatever calls and caller edits
\* came before, the skill vocabulary the parser holds is the one it was built
\* with, and what a call returns is what the same call returns on newly
\* built objects for the same input and the same backend answers.
C12_NoSharedMutableState ==
    /\ pc # "startup" /\ pc # "halted" => parser_skill_keywords = skill_keywords
    /\ (pc = "served" /\ operation \in Ops) =>
           LET probe_ok == calls[1].ok
               main == [ok |-> calls[Len(calls)].ok, text |-> raw]
               alone == RunOperation(operation, <<>>, llm_choice, analyzer_key,
                                     probe_ok, main)
           IN  /\ result = alone.result
               /\ result.via = "default" => result.v = DefaultOf(operation)
    /\ (pc = "served" /\ operation = "parse_resume") =>
           parsed = parse_resume(resume_in)

\* C12 witness: the caller modified the default an operation returned, and a
\* later call of the same operation has returned the default again
C12_Witness ==
    /\ pc = "served"
    /\ operation \in Ops
    /\ <<operation, "default">> \in edited
    /\ requests >= 2
    /\ result.via = "default"
    /\ result.v = DefaultOf(operation)

\* ------------------------------------------------------------------- C13
\* C13: an upload whose extension is not pdf, docx or txt is rejected by the
\* dispatch of parse_resume with a reported failure: the call reports an
\* error, returns no fact record, and no analysis operation or backend call
\* follows for it.
C13_UnknownExtensionRejected ==
    (pc = "served" /\ operation = "parse_resume"
        /\ resume_in.is_file /\ ~KnownExtension(resume_in)) =>
        /\ errors # <<>> \/ printed # <<>>
        /\ parsed.ret # "dict"
        /\ calls = <<>>
        /\ result = NoResult

\* ------------------------------------------------------------------- C14
\* the model a label resolves to
ResolvedModel(label) ==
    IF HasFastMarker(label) THEN FAST_MODEL
    ELSE IF HasPowerfulMarker(label) THEN POWERFUL_MODEL
    ELSE FAST_MODEL

\* C14: in every analysis operation the main completion call goes to the
\* handle _get_safe_llm returned: after an answered probe the model the label
\* resolves to, which is the model probed; after a failed probe the
\* lightweight model, never the heavyweight one.
C14_MainOnVerifiedHandle ==
    \A i \in DOMAIN calls :
        calls[i].kind = "main" =>
            /\ i = 2
            /\ calls[1].kind = "probe"
            /\ calls[1].model = ResolvedModel(llm_choice)
            /\ calls[i].model = llm.model_name
            /\ calls[1].ok => calls[i].model = calls[1].model
            /\ ~calls[1].ok => /\ calls[i].model = FAST_MODEL
                               /\ calls[i].model # POWERFUL_MODEL

\* C14 witness: the heavyweight model was chosen, its probe failed, and the
\* main call went to the lightweight model and was answered
C14_Witness ==
    /\ pc = "served"
    /\ operation \in Ops
    /\ llm_choice = LabelPowerful
    /\ Len(calls) = 2
    /\ calls[1].model = POWERFUL_MODEL
    /\ ~calls[1].ok
    /\ calls[2].kind = "main"
    /\ calls[2].model = FAST_MODEL
    /\ calls[2].ok

====
